---- MODULE Spec2Model ----
(***************************************************************************)
(* The MCP tool servers of this repository (filesystem server, weather     *)
(* server) as one state machine: the process lifecycle of main(), the      *)
(* ListTools handler, the CallTool handler with its try/catch envelope,    *)
(* and the file store the filesystem tools act on.                         *)
(***************************************************************************)
EXTENDS Integers, Sequences, FiniteSets, TLC

\* Number of requests one run of the process answers.
MaxRequests == 3
\* Number of calls that may be in flight together.
MaxOverlap == 2

VARIABLES
  server,     \* which server this process runs
  connect,    \* server.connect(transport): "pending", "resolved" or "rejected"
  state,      \* "Idle", "Serving" or "Exited"
  exitCode,   \* the exit status, once state = "Exited"
  stderr,     \* lines written with console.error
  stdout,     \* the responses written to the transport, one header each
  files,      \* the file store
  nReq,       \* requests received so far
  last,       \* the last request handled and what the handler did with it
  firstList,  \* the tools of the first discovery response
  calls       \* the invocations of the CallTool handler that may overlap

vars ==
  <<server, connect, state, exitCode, stderr, stdout, files, nReq, last, firstList, calls>>

(***************************************************************************)
(* JavaScript values, tagged by their type.  An object carries the three   *)
(* properties the handlers read; a property that is not there reads as     *)
(* undefined, as in JavaScript.                                            *)
(***************************************************************************)
Undefined == [t |-> "undefined"]
Null == [t |-> "null"]
NaN == [t |-> "NaN"]
Str(s) == [t |-> "string", s |-> s]
Num(n) == [t |-> "number", n |-> n]
Obj(p, c, y) == [t |-> "object", path |-> p, content |-> c, city |-> y]

\* `!args` is true exactly for the falsy values.
Truthy(v) ==
  CASE v.t = "undefined" -> FALSE
    [] v.t = "null" -> FALSE
    [] v.t = "NaN" -> FALSE
    [] v.t = "string" -> v.s # ""
    [] v.t = "number" -> v.n # 0
    [] OTHER -> TRUE

\* args.path, args.content, args.city on a truthy args value.
Prop(v, k) ==
  IF v.t = "object"
    THEN CASE k = "path" -> v.path
           [] k = "content" -> v.content
           [] k = "city" -> v.city
           [] OTHER -> Undefined
    ELSE Undefined

\* Completions of a block of code: it returns a value or throws one.
Return(v) == [c |-> "return", v |-> v]
Throw(e) == [c |-> "throw", v |-> e]
\* An instance of Error (Error, TypeError, a Node system error).
Error(msg) == [instanceofError |-> TRUE, message |-> msg]

\* How Node names a wrongly typed value in ERR_INVALID_ARG_TYPE.
Received(v) ==
  CASE v.t = "undefined" -> "Received undefined"
    [] v.t = "null" -> "Received null"
    [] v.t = "number" -> "Received type number (" \o ToString(v.n) \o ")"
    [] OTHER -> "Received an instance of Object"

(***************************************************************************)
(* JSON.stringify(value, null, 2) on the values the handlers encode:       *)
(* objects as ordered <<key, value>> pairs, arrays of such objects.        *)
(***************************************************************************)
Quote(s) == "\"" \o s \o "\""

StringifyScalar(v) ==
  CASE v.t = "string" -> Quote(v.s)
    [] v.t = "number" -> ToString(v.n)
    [] OTHER -> "null"

\* Properties whose value is undefined are left out.
RECURSIVE Defined(_)
Defined(pairs) ==
  IF pairs = <<>> THEN <<>>
  ELSE IF Head(pairs)[2].t = "undefined" THEN Defined(Tail(pairs))
  ELSE <<Head(pairs)>> \o Defined(Tail(pairs))

RECURSIVE Members(_, _)
Members(pairs, ind) ==
  IF pairs = <<>> THEN ""
  ELSE ind \o Quote(Head(pairs)[1]) \o ": " \o StringifyScalar(Head(pairs)[2])
       \o (IF Tail(pairs) = <<>> THEN "" ELSE ",\n" \o Members(Tail(pairs), ind))

StringifyObject(pairs, ind) ==
  IF Defined(pairs) = <<>> THEN "{}"
  ELSE "{\n" \o Members(Defined(pairs), ind \o "  ") \o "\n" \o ind \o "}"

RECURSIVE Elements(_, _)
Elements(items, ind) ==
  IF items = <<>> THEN ""
  ELSE ind \o StringifyObject(Head(items), ind)
       \o (IF Tail(items) = <<>> THEN "" ELSE ",\n" \o Elements(Tail(items), ind))

StringifyArray(items) ==
  IF items = <<>> THEN "[]"
  ELSE "[\n" \o Elements(items, "  ") \o "\n]"

\* A function has no JSON text: JSON.stringify gives undefined for it.
JSONstringify(v) ==
  CASE v.t = "function" -> Undefined
    [] v.t = "array" -> Str(StringifyArray(v.items))
    [] OTHER -> Str(StringifyObject(v.pairs, ""))

(***************************************************************************)
(* The file store behind fs/promises: a directory /d holding a fixed       *)
(* subdirectory and two file slots, each absent or holding text.  Paths in *)
(* the requests are strings or missing.                                    *)
(***************************************************************************)
FilePaths == {"/d/a", "/d/b"}
Directories == {"/d", "/d/sub"}
Contents == {"", "hi"}
NoFile == [exists |-> FALSE]
File(c) == [exists |-> TRUE, data |-> c]
InitialStore == [p \in FilePaths |-> IF p = "/d/a" THEN File("hi") ELSE NoFile]

InvalidPath(v) ==
  Error("The \"path\" argument must be of type string or an instance of Buffer or URL. "
        \o Received(v))

\* fs.readFile(path, "utf-8")
readFile(fs, p) ==
  IF p.t # "string" THEN Throw(InvalidPath(p))
  ELSE IF p.s \in Directories
    THEN Throw(Error("EISDIR: illegal operation on a directory, read"))
  ELSE IF p.s \in FilePaths /\ fs[p.s].exists THEN Return(Str(fs[p.s].data))
  ELSE Throw(Error("ENOENT: no such file or directory, open '" \o p.s \o "'"))

\* Variant: the file is opened with flag "a", so the data is appended.
writeFileAppending(fs, p, data) ==
  IF data.t # "string"
    THEN [comp |-> Throw(Error("The \"data\" argument must be of type string or an instance of Buffer, TypedArray, or DataView. "
                               \o Received(data))),
          fs |-> fs]
  ELSE IF p.t # "string" THEN [comp |-> Throw(InvalidPath(p)), fs |-> fs]
  ELSE IF p.s \in Directories
    THEN [comp |-> Throw(Error("EISDIR: illegal operation on a directory, open '" \o p.s \o "'")),
          fs |-> fs]
  ELSE IF p.s \in FilePaths
    THEN [comp |-> Return(Undefined),
          fs |-> [fs EXCEPT ![p.s] = File((IF fs[p.s].exists THEN fs[p.s].data ELSE "")
                                          \o data.s)]]
  ELSE [comp |-> Throw(Error("ENOENT: no such file or directory, open '" \o p.s \o "'")),
        fs |-> fs]

\* fs.writeFile(path, data, "utf-8"): the completion and the store it leaves.
\* The data is validated before the file is opened.
writeFile(fs, p, data) ==
  IF data.t # "string"
    THEN [comp |-> Throw(Error("The \"data\" argument must be of type string or an instance of Buffer, TypedArray, or DataView. "
                               \o Received(data))),
          fs |-> fs]
  ELSE IF p.t # "string" THEN [comp |-> Throw(InvalidPath(p)), fs |-> fs]
  ELSE IF p.s \in Directories
    THEN [comp |-> Throw(Error("EISDIR: illegal operation on a directory, open '" \o p.s \o "'")),
          fs |-> fs]
  ELSE IF p.s \in FilePaths
    THEN [comp |-> Return(Undefined), fs |-> [fs EXCEPT ![p.s] = File(data.s)]]
  ELSE [comp |-> Throw(Error("ENOENT: no such file or directory, open '" \o p.s \o "'")),
        fs |-> fs]

\* One directory entry as entries.map(...) of list_directory renders it.
Item(name, type) == <<<<"name", Str(name)>>, <<"type", Str(type)>>>>

\* fs.readdir(path, { withFileTypes: true }) followed by the map to items.
readdirItems(fs, p) ==
  IF p.t # "string" THEN Throw(InvalidPath(p))
  ELSE IF p.s = "/d"
    THEN Return([t |-> "array",
                 items |-> (IF fs["/d/a"].exists THEN <<Item("a", "file")>> ELSE <<>>)
                           \o (IF fs["/d/b"].exists THEN <<Item("b", "file")>> ELSE <<>>)
                           \o <<Item("sub", "directory")>>])
  ELSE IF p.s = "/d/sub" THEN Return([t |-> "array", items |-> <<>>])
  ELSE IF p.s \in FilePaths /\ fs[p.s].exists
    THEN Throw(Error("ENOTDIR: not a directory, scandir '" \o p.s \o "'"))
  ELSE Throw(Error("ENOENT: no such file or directory, scandir '" \o p.s \o "'"))

(***************************************************************************)
(* The weather server's data.                                              *)
(***************************************************************************)
Weather(city, temperature, unit, conditions, humidity, windSpeed) ==
  [t |-> "object",
   pairs |-> <<<<"city", Str(city)>>, <<"temperature", Num(temperature)>>,
               <<"unit", Str(unit)>>, <<"conditions", Str(conditions)>>,
               <<"humidity", Num(humidity)>>, <<"windSpeed", Num(windSpeed)>>>>]

\* What an object literal inherits: Object.prototype.constructor is the
\* function Object, and __proto__ reads Object.prototype itself, an object
\* with no enumerable property.
ObjectFunction == [t |-> "function"]
ObjectPrototype == [t |-> "object", pairs |-> <<>>]

\* Variant: the forecast code adjusts the shared record in place, so the data
\* drifts with every request served.
mockWeatherDataDrifting(key) ==
  CASE key = "new york" -> Weather("New York", 72 + 2 * nReq, "F", "Partly cloudy", 65, 12)
    [] key = "london" -> Weather("London", 18 + 2 * nReq, "C", "Rainy", 80, 15)
    [] key = "tokyo" -> Weather("Tokyo", 25 + 2 * nReq, "C", "Sunny", 55, 8)
    [] key = "paris" -> Weather("Paris", 20 + 2 * nReq, "C", "Cloudy", 70, 10)
    [] key = "sydney" -> Weather("Sydney", 22 + 2 * nReq, "C", "Clear", 60, 18)
    [] key = "constructor" -> ObjectFunction
    [] key = "__proto__" -> ObjectPrototype
    [] OTHER -> Undefined

\* mockWeatherData[key]
mockWeatherData(key) ==
  CASE key = "new york" -> Weather("New York", 72, "F", "Partly cloudy", 65, 12)
    [] key = "london" -> Weather("London", 18, "C", "Rainy", 80, 15)
    [] key = "tokyo" -> Weather("Tokyo", 25, "C", "Sunny", 55, 8)
    [] key = "paris" -> Weather("Paris", 20, "C", "Cloudy", 70, 10)
    [] key = "sydney" -> Weather("Sydney", 22, "C", "Clear", 60, 18)
    [] key = "constructor" -> ObjectFunction
    [] key = "__proto__" -> ObjectPrototype
    [] OTHER -> Undefined

\* String.prototype.toLowerCase on the city strings of the requests.
toLowerCase(s) ==
  CASE s = "London" -> "london"
    [] s = "LONDON" -> "london"
    [] s = "New York" -> "new york"
    [] s = "Berlin" -> "berlin"
    [] OTHER -> s

\* currentWeather.<key>
Field(w, key) ==
  IF w.t = "object" /\ \E i \in 1..Len(w.pairs) : w.pairs[i][1] = key
    THEN w.pairs[CHOOSE i \in 1..Len(w.pairs) : w.pairs[i][1] = key][2]
    ELSE Undefined

\* value + k and value - k for a number k.
Plus(v, k) == IF v.t = "number" THEN Num(v.n + k) ELSE NaN

\* { day: ..., ...currentWeather }: the own enumerable properties.
Spread(w) == IF w.t = "object" THEN w.pairs ELSE <<>>

(***************************************************************************)
(* The two servers: tool catalogs and CallTool handlers.                   *)
(***************************************************************************)
Servers == {"filesystem", "weather"}

ToolSpec(name, description, required) ==
  [name |-> name, description |-> description, required |-> required]

FilesystemTools ==
  <<ToolSpec("read_file", "Read the contents of a file from the filesystem", <<"path">>),
    ToolSpec("write_file", "Write content to a file on the filesystem", <<"path", "content">>),
    ToolSpec("list_directory", "List contents of a directory", <<"path">>)>>

WeatherTools ==
  <<ToolSpec("get_weather",
             "Get current weather information for a city (mock data). Supported cities: New York, London, Tokyo, Paris, Sydney",
             <<"city">>),
    ToolSpec("get_forecast", "Get 3-day weather forecast for a city (mock data)", <<"city">>)>>

\* Variant: the catalog is a mutable list that a failing call empties.
ListToolsHandlerForgetful(srv) ==
  IF last.kind = "call" /\ "isError" \in DOMAIN last.comp.v THEN <<>>
  ELSE IF srv = "filesystem" THEN FilesystemTools ELSE WeatherTools

\* The ListTools handler: the literal catalog of the server.
ListToolsHandler(srv) == IF srv = "filesystem" THEN FilesystemTools ELSE WeatherTools

\* The two result shapes.  A success result has no isError key.
TextBlock(text) == [type |-> "text", text |-> text]
SuccessResult(text) == [content |-> <<TextBlock(text)>>]
ErrorResult(msg) == [content |-> <<TextBlock(Str(msg))>>, isError |-> TRUE]

\* The outcome of running a piece of the handler: its completion, the file
\* store it leaves, and how many file-system operations it started.
Outcome(comp, fs, io) == [comp |-> comp, fs |-> fs, io |-> io]

\* Variant: the file is opened for reading and appending, which creates it
\* when it is missing.
ReadFileCaseCreating(args, fs) ==
  LET filePath == Prop(args, "path")
      missing == filePath.t = "string" /\ filePath.s \in FilePaths /\ ~fs[filePath.s].exists
      opened == IF missing THEN [fs EXCEPT ![filePath.s] = File("")] ELSE fs
      content == readFile(opened, filePath)
  IN  Outcome(IF content.c = "return" THEN Return(SuccessResult(content.v)) ELSE content,
              opened, 1)

\* case "read_file"
ReadFileCase(args, fs) ==
  LET filePath == Prop(args, "path")
      content == readFile(fs, filePath)
  IN  Outcome(IF content.c = "return" THEN Return(SuccessResult(content.v)) ELSE content,
              fs, 1)

\* case "write_file"
WriteFileCase(args, fs) ==
  LET filePath == Prop(args, "path")
      content == Prop(args, "content")
      w == writeFile(fs, filePath, content)
  IN  Outcome(IF w.comp.c = "return"
                THEN Return(SuccessResult(Str("Successfully wrote to " \o filePath.s)))
                ELSE w.comp,
              w.fs, 1)

\* case "list_directory"
ListDirectoryCase(args, fs) ==
  LET dirPath == Prop(args, "path")
      items == readdirItems(fs, dirPath)
  IN  Outcome(IF items.c = "return" THEN Return(SuccessResult(JSONstringify(items.v))) ELSE items,
              fs, 1)

UnknownTool(name) == Throw(Error("Unknown tool: " \o name))

\* Variant: the switch also takes the upper-case spelling of read_file,
\* which the catalog does not list.
FilesystemTryBlockAnyCase(name, args, fs) ==
  CASE name \in {"read_file", "READ_FILE"} -> ReadFileCase(args, fs)
    [] name = "write_file" -> WriteFileCase(args, fs)
    [] name = "list_directory" -> ListDirectoryCase(args, fs)
    [] OTHER -> Outcome(UnknownTool(name), fs, 0)

\* The try block of the filesystem server: switch (name).
FilesystemTryBlock(name, args, fs) ==
  CASE name = "read_file" -> ReadFileCase(args, fs)
    [] name = "write_file" -> WriteFileCase(args, fs)
    [] name = "list_directory" -> ListDirectoryCase(args, fs)
    [] OTHER -> Outcome(UnknownTool(name), fs, 0)

NotAvailable(city) ==
  Throw(Error("Weather data not available for " \o city
              \o ". Supported cities: New York, London, Tokyo, Paris, Sydney"))

\* case "get_weather"
GetWeatherCase(city, suppliedCity) ==
  LET weather == mockWeatherData(city)
  IN  IF ~Truthy(weather) THEN NotAvailable(suppliedCity)
      ELSE Return(SuccessResult(JSONstringify(weather)))

\* Variant: the third day is offset from the second day's values instead of
\* the current ones.
ForecastChained(currentWeather) ==
  [t |-> "array",
   items |-> <<
     <<<<"day", Str("Today")>>>> \o Spread(currentWeather),
     <<<<"day", Str("Tomorrow")>>,
       <<"city", Field(currentWeather, "city")>>,
       <<"temperature", Plus(Field(currentWeather, "temperature"), 2)>>,
       <<"unit", Field(currentWeather, "unit")>>,
       <<"conditions", Str("Partly cloudy")>>,
       <<"humidity", Plus(Field(currentWeather, "humidity"), -5)>>,
       <<"windSpeed", Plus(Field(currentWeather, "windSpeed"), 3)>>>>,
     <<<<"day", Str("Day After Tomorrow")>>,
       <<"city", Field(currentWeather, "city")>>,
       <<"temperature", Plus(Plus(Field(currentWeather, "temperature"), 2), -1)>>,
       <<"unit", Field(currentWeather, "unit")>>,
       <<"conditions", Str("Cloudy")>>,
       <<"humidity", Plus(Plus(Field(currentWeather, "humidity"), -5), 10)>>,
       <<"windSpeed", Plus(Plus(Field(currentWeather, "windSpeed"), 3), -2)>>>> >>]

\* The mock 3-day forecast.
Forecast(currentWeather) ==
  [t |-> "array",
   items |-> <<
     <<<<"day", Str("Today")>>>> \o Spread(currentWeather),
     <<<<"day", Str("Tomorrow")>>,
       <<"city", Field(currentWeather, "city")>>,
       <<"temperature", Plus(Field(currentWeather, "temperature"), 2)>>,
       <<"unit", Field(currentWeather, "unit")>>,
       <<"conditions", Str("Partly cloudy")>>,
       <<"humidity", Plus(Field(currentWeather, "humidity"), -5)>>,
       <<"windSpeed", Plus(Field(currentWeather, "windSpeed"), 3)>>>>,
     <<<<"day", Str("Day After Tomorrow")>>,
       <<"city", Field(currentWeather, "city")>>,
       <<"temperature", Plus(Field(currentWeather, "temperature"), -1)>>,
       <<"unit", Field(currentWeather, "unit")>>,
       <<"conditions", Str("Cloudy")>>,
       <<"humidity", Plus(Field(currentWeather, "humidity"), 10)>>,
       <<"windSpeed", Plus(Field(currentWeather, "windSpeed"), -2)>>>> >>]

\* case "get_forecast"
GetForecastCase(city, suppliedCity) ==
  LET currentWeather == mockWeatherData(city)
  IN  IF ~Truthy(currentWeather) THEN NotAvailable(suppliedCity)
      ELSE Return(SuccessResult(JSONstringify(Forecast(currentWeather))))

\* (args.city as string).toLowerCase() on a city that is not a string.
NoToLowerCase(v) ==
  CASE v.t = "undefined" ->
         Throw(Error("Cannot read properties of undefined (reading 'toLowerCase')"))
    [] v.t = "null" ->
         Throw(Error("Cannot read properties of null (reading 'toLowerCase')"))
    [] OTHER -> Throw(Error("args.city.toLowerCase is not a function"))

\* The try block of the weather server: the city is lower-cased first, then
\* switch (name).
WeatherTryBlock(name, args, fs) ==
  LET supplied == Prop(args, "city")
  IN  IF supplied.t # "string" THEN Outcome(NoToLowerCase(supplied), fs, 0)
      ELSE LET city == toLowerCase(supplied.s)
           IN  CASE name = "get_weather" -> Outcome(GetWeatherCase(city, supplied.s), fs, 0)
                 [] name = "get_forecast" -> Outcome(GetForecastCase(city, supplied.s), fs, 0)
                 [] OTHER -> Outcome(UnknownTool(name), fs, 0)

TryBlock(srv, name, args, fs) ==
  IF srv = "filesystem" THEN FilesystemTryBlock(name, args, fs)
  ELSE WeatherTryBlock(name, args, fs)

\* catch (error): the message of an Error, String(error) of anything else.
CatchClause(error) ==
  LET errorMessage == IF error.instanceofError THEN error.message ELSE error.string
  IN  ErrorResult("Error: " \o errorMessage)

NoArguments == ErrorResult("Error: No arguments provided")

\* The names the catalog of a server lists.
Registered(srv) == {ListToolsHandler(srv)[i].name : i \in 1..Len(ListToolsHandler(srv))}

\* Variant: no catch clause, a throw of the try block leaves the handler.
CallToolHandlerNoCatch(srv, name, args, fs) ==
  IF ~Truthy(args) THEN Outcome(Return(NoArguments), fs, 0)
  ELSE TryBlock(srv, name, args, fs)

\* Variant: the tool name is looked up before the arguments are checked.
CallToolHandlerLookupFirst(srv, name, args, fs) ==
  IF name \notin Registered(srv)
    THEN Outcome(Return(CatchClause(UnknownTool(name).v)), fs, 0)
  ELSE IF ~Truthy(args) THEN Outcome(Return(NoArguments), fs, 0)
  ELSE LET t == TryBlock(srv, name, args, fs)
       IN  IF t.comp.c = "throw" THEN Outcome(Return(CatchClause(t.comp.v)), t.fs, t.io)
           ELSE t

\* Variant: a try block that threw is run once more before giving up.
CallToolHandlerRetry(srv, name, args, fs) ==
  IF ~Truthy(args) THEN Outcome(Return(NoArguments), fs, 0)
  ELSE LET t == TryBlock(srv, name, args, fs)
           u == TryBlock(srv, name, args, t.fs)
       IN  IF t.comp.c = "return" THEN t
           ELSE IF u.comp.c = "return" THEN Outcome(u.comp, u.fs, t.io + u.io)
           ELSE Outcome(Return(CatchClause(u.comp.v)), u.fs, t.io + u.io)

\* The CallTool handler of server srv on request (name, args) with file
\* store fs.
CallToolHandler(srv, name, args, fs) ==
  IF ~Truthy(args) THEN Outcome(Return(NoArguments), fs, 0)
  ELSE LET t == TryBlock(srv, name, args, fs)
       IN  IF t.comp.c = "throw" THEN Outcome(Return(CatchClause(t.comp.v)), t.fs, t.io)
           ELSE t

(***************************************************************************)
(* The requests a host sends.                                              *)
(***************************************************************************)
ToolNames ==
  {"read_file", "write_file", "list_directory", "get_weather", "get_forecast",
   "READ_FILE", "nope"}

PathValues == {Undefined, Str("/d/a"), Str("/d/b"), Str("/d"), Str("/nodir/x")}
ContentValues == {Undefined} \cup {Str(c) : c \in Contents}
CityValues ==
  {Str("London"), Str("new york"), Str("Berlin"), Str(""), Str("constructor"),
   Str("__proto__"), Num(5)}

ArgumentValues ==
  {Undefined, Null, Str(""), Str("abc")}
  \cup {Obj(p, c, Undefined) : p \in PathValues, c \in ContentValues}
  \cup {Obj(Undefined, Undefined, y) : y \in CityValues}

(***************************************************************************)
(* The process.                                                            *)
(***************************************************************************)
NoRequest ==
  [kind |-> "none", id |-> 0, name |-> "", args |-> Undefined, pre |-> InitialStore,
   comp |-> Return(Undefined), io |-> 0, afterFailure |-> FALSE,
   repeated |-> FALSE, sameAsBefore |-> FALSE,
   sameRequest |-> FALSE, written |-> [p \in FilePaths |-> NoFile]]

Init ==
  /\ server \in Servers
  /\ connect = "pending"
  /\ state = "Idle"
  /\ exitCode = 0
  /\ stderr = <<>>
  /\ stdout = <<>>
  /\ files = InitialStore
  /\ nReq = 0
  /\ last = NoRequest
  /\ firstList = [seen |-> FALSE, id |-> 0, tools |-> <<>>]
  /\ calls = <<>>

RunningBanner(srv) ==
  IF srv = "filesystem" THEN "Filesystem MCP Server running on stdio"
  ELSE "Weather MCP Server running on stdio"

ConnectErrors == {"transport failed to start"}
FatalExitCode == 1

\* main(): server.connect(transport) resolves.
Connect ==
  /\ state = "Idle"
  /\ connect' = "resolved"
  /\ state' = "Serving"
  /\ stderr' = Append(stderr, RunningBanner(server))
  /\ UNCHANGED <<calls, server, exitCode, stdout, files, nReq, last, firstList>>

\* Variant: the failure is logged with console.log and the process ends as
\* if nothing had happened.
ConnectFailLogged(error) ==
  /\ state = "Idle"
  /\ connect' = "rejected"
  /\ stdout' = Append(stdout, [id |-> 0, kind |-> "Fatal error: " \o error])
  /\ exitCode' = 0
  /\ state' = "Exited"
  /\ UNCHANGED <<calls, server, stderr, files, nReq, last, firstList>>

\* main(): server.connect(transport) rejects; main().catch reports and exits.
ConnectFail(error) ==
  /\ state = "Idle"
  /\ connect' = "rejected"
  /\ stderr' = Append(stderr, "Fatal error: " \o error)
  /\ exitCode' = FatalExitCode
  /\ state' = "Exited"
  /\ UNCHANGED <<calls, server, stdout, files, nReq, last, firstList>>

\* The transport closes: nothing keeps the process alive and it ends.
TransportClose ==
  /\ state = "Serving"
  /\ state' = "Exited"
  /\ exitCode' = 0
  /\ UNCHANGED <<calls, server, connect, stderr, stdout, files, nReq, last, firstList>>

\* Did the last handled request end in a failure (an isError result or a fault)?
Failed(rec) ==
  /\ rec.kind = "call"
  /\ \/ rec.comp.c = "throw"
     \/ "isError" \in DOMAIN rec.comp.v /\ rec.comp.v.isError

\* A discovery request.
ListTools ==
  /\ state = "Serving"
  /\ nReq < MaxRequests
  /\ LET tools == ListToolsHandler(server)
     IN  /\ nReq' = nReq + 1
         /\ stdout' = Append(stdout, [id |-> nReq + 1, kind |-> "tools"])
         /\ last' = [kind |-> "list", id |-> nReq + 1, name |-> "", args |-> Undefined,
                     pre |-> files, comp |-> Return([tools |-> tools]), io |-> 0,
                     afterFailure |-> Failed(last),
                     repeated |-> FALSE, sameAsBefore |-> FALSE,
                     sameRequest |-> FALSE, written |-> last.written]
         /\ firstList' = IF firstList.seen THEN firstList
                         ELSE [seen |-> TRUE, id |-> nReq + 1, tools |-> tools]
  /\ UNCHANGED <<calls, server, connect, state, exitCode, stderr, files>>

\* Variant: a call that ends in an error result takes the process down.
CallToolExitOnError(name, args) ==
  /\ state = "Serving"
  /\ nReq < MaxRequests
  /\ LET h == CallToolHandler(server, name, args, files)
         failed == h.comp.c = "throw" \/ "isError" \in DOMAIN h.comp.v
     IN  /\ files' = h.fs
         /\ nReq' = nReq + 1
         /\ stdout' = Append(stdout, [id |-> nReq + 1,
                                      kind |-> IF h.comp.c = "return" THEN "result" ELSE "fault"])
         /\ last' = [kind |-> "call", id |-> nReq + 1, name |-> name, args |-> args,
                     pre |-> files, comp |-> h.comp, io |-> h.io,
                     afterFailure |-> Failed(last),
                     repeated |-> FALSE, sameAsBefore |-> FALSE,
                     sameRequest |-> FALSE, written |-> last.written]
         /\ state' = IF failed THEN "Exited" ELSE state
         /\ exitCode' = IF failed THEN FatalExitCode ELSE exitCode
  /\ UNCHANGED <<calls, server, connect, stderr, firstList>>

\* A call request.  A handler that threw would be answered by the protocol
\* layer with a fault instead of a result.  The record of the request notes
\* whether it repeats the request before it (and on the same file store),
\* whether it then got the same answer, and what the last successful
\* write_file to each path has written.
CallTool(name, args) ==
  /\ state = "Serving"
  /\ nReq < MaxRequests
  /\ LET h == CallToolHandler(server, name, args, files)
         sameRequest == /\ last.kind = "call"
                        /\ last.name = name
                        /\ last.args = args
         repeated == sameRequest /\ last.pre = files
         wrote == /\ server = "filesystem"
                  /\ name = "write_file"
                  /\ h.comp.c = "return"
                  /\ "isError" \notin DOMAIN h.comp.v
     IN  /\ files' = h.fs
         /\ nReq' = nReq + 1
         /\ stdout' = Append(stdout, [id |-> nReq + 1,
                                      kind |-> IF h.comp.c = "return" THEN "result" ELSE "fault"])
         /\ last' = [kind |-> "call", id |-> nReq + 1, name |-> name, args |-> args,
                     pre |-> files, comp |-> h.comp, io |-> h.io,
                     afterFailure |-> Failed(last),
                     repeated |-> repeated,
                     sameAsBefore |-> repeated /\ h.comp = last.comp,
                     sameRequest |-> sameRequest,
                     written |-> IF wrote THEN [last.written EXCEPT ![args.path.s] =
                                                                     File(args.content.s)]
                                 ELSE last.written]
  /\ UNCHANGED <<calls, server, connect, state, exitCode, stderr, firstList>>

Next ==
  \/ Connect
  \/ \E e \in ConnectErrors : ConnectFail(e)
  \/ TransportClose
  \/ ListTools
  \/ \E name \in ToolNames, args \in ArgumentValues : CallTool(name, args)

Spec == Init /\ [][Next]_vars

(***************************************************************************)
(* Overlapping calls.  The protocol layer starts the handler of a request  *)
(* without waiting for the handler of the request before it, so a call can *)
(* start while another is suspended at its await.  An invocation runs in   *)
(* steps: Begin runs the handler up to its await (or to its return when it *)
(* has none), the file-system operation then takes place on its own        *)
(* (fs.writeFile opens and truncates the file, then writes it), and Resume *)
(* runs the rest of the handler and sends the response.                    *)
(***************************************************************************)
OverlapRequests ==
  {[name |-> "read_file", args |-> Obj(Str("/d/a"), Undefined, Undefined)],
   [name |-> "read_file", args |-> Obj(Str("/d/b"), Undefined, Undefined)],
   [name |-> "write_file", args |-> Obj(Str("/d/a"), Str(""), Undefined)],
   [name |-> "write_file", args |-> Obj(Str("/d/b"), Str("hi"), Undefined)],
   [name |-> "write_file", args |-> Obj(Str("/d"), Str("hi"), Undefined)],
   [name |-> "list_directory", args |-> Obj(Str("/d"), Undefined, Undefined)],
   [name |-> "read_file", args |-> Undefined],
   [name |-> "nope", args |-> Obj(Str("/d/a"), Undefined, Undefined)],
   [name |-> "get_weather", args |-> Obj(Undefined, Undefined, Str("London"))],
   [name |-> "get_forecast", args |-> Obj(Undefined, Undefined, Str("Berlin"))]}

\* Does the handler of srv reach an await for this request?
Awaits(srv, name, args) ==
  /\ Truthy(args)
  /\ srv = "filesystem"
  /\ name \in {"read_file", "write_file", "list_directory"}

\* Variant: name and args are kept in variables of the module, so every
\* invocation sees the values of the one that started last.
LocalsShared(id) == calls[Len(calls)]

\* The variables name and args of invocation id: each invocation of the
\* handler has its own.
Locals(id) == calls[id]

Respond(id, comp) ==
  Append(stdout, [id |-> id, kind |-> IF comp.c = "return" THEN "result" ELSE "fault",
                  comp |-> comp])

\* A call request arrives and its handler runs up to its first await.
Begin(req) ==
  /\ state = "Serving"
  /\ Len(calls) < MaxOverlap
  /\ LET id == Len(calls) + 1
         suspended == Awaits(server, req.name, req.args)
         done == CallToolHandler(server, req.name, req.args, files)
         marked == [i \in 1..Len(calls) |->
                      IF calls[i].phase # "done" THEN [calls[i] EXCEPT !.overlapped = TRUE]
                      ELSE calls[i]]
         others == \E i \in 1..Len(calls) : calls[i].phase # "done"
     IN  /\ calls' = Append(marked,
                            [name |-> req.name, args |-> req.args,
                             phase |-> IF suspended THEN "awaiting" ELSE "done",
                             seen |-> files,
                             io |-> Return(Undefined),
                             comp |-> IF suspended THEN Return(Undefined) ELSE done.comp,
                             overlapped |-> others])
         /\ stdout' = IF suspended THEN stdout ELSE Respond(id, done.comp)
         /\ nReq' = nReq + 1
  /\ UNCHANGED <<server, connect, state, exitCode, stderr, files, last, firstList>>

\* fs.readFile or fs.readdir of invocation id takes place.
Read(id) ==
  /\ id \in 1..Len(calls)
  /\ calls[id].phase = "awaiting"
  /\ Locals(id).name \in {"read_file", "list_directory"}
  /\ LET path == Prop(Locals(id).args, "path")
         io == IF Locals(id).name = "read_file" THEN readFile(files, path)
               ELSE readdirItems(files, path)
     IN  calls' = [calls EXCEPT ![id].phase = "resumable", ![id].io = io, ![id].seen = files]
  /\ UNCHANGED <<server, connect, state, exitCode, stderr, stdout, files, nReq, last, firstList>>

\* fs.writeFile of invocation id validates its arguments and opens the file,
\* which creates or truncates it.
Open(id) ==
  /\ id \in 1..Len(calls)
  /\ calls[id].phase = "awaiting"
  /\ Locals(id).name = "write_file"
  /\ LET path == Prop(Locals(id).args, "path")
         w == writeFile(files, path, Prop(Locals(id).args, "content"))
     IN  IF w.comp.c = "throw"
           THEN /\ calls' = [calls EXCEPT ![id].phase = "resumable", ![id].io = w.comp,
                                          ![id].seen = files]
                /\ files' = files
           ELSE /\ calls' = [calls EXCEPT ![id].phase = "opened", ![id].seen = files]
                /\ files' = [files EXCEPT ![path.s] = File("")]
  /\ UNCHANGED <<server, connect, state, exitCode, stderr, stdout, nReq, last, firstList>>

\* fs.writeFile of invocation id writes the data to the file it opened.
Write(id) ==
  /\ id \in 1..Len(calls)
  /\ calls[id].phase = "opened"
  /\ files' = [files EXCEPT ![Prop(Locals(id).args, "path").s] =
                              File(Prop(Locals(id).args, "content").s)]
  /\ calls' = [calls EXCEPT ![id].phase = "resumable", ![id].io = Return(Undefined)]
  /\ UNCHANGED <<server, connect, state, exitCode, stderr, stdout, nReq, last, firstList>>

\* The rest of the handler after the await: the return of the case, or the
\* catch clause when the operation failed.
Continuation(name, args, io) ==
  IF io.c = "throw" THEN Return(CatchClause(io.v))
  ELSE CASE name = "read_file" -> Return(SuccessResult(io.v))
         [] name = "write_file" ->
              Return(SuccessResult(Str("Successfully wrote to " \o Prop(args, "path").s)))
         [] OTHER -> Return(SuccessResult(JSONstringify(io.v)))

\* Invocation id resumes after its await, returns, and its response is sent.
Resume(id) ==
  /\ id \in 1..Len(calls)
  /\ calls[id].phase = "resumable"
  /\ LET comp == Continuation(Locals(id).name, Locals(id).args, calls[id].io)
     IN  /\ calls' = [calls EXCEPT ![id].phase = "done", ![id].comp = comp]
         /\ stdout' = Respond(id, comp)
  /\ UNCHANGED <<server, connect, state, exitCode, stderr, files, nReq, last, firstList>>

NextOverlap ==
  \/ Connect
  \/ \E req \in OverlapRequests : Begin(req)
  \/ \E id \in 1..MaxOverlap : Read(id)
  \/ \E id \in 1..MaxOverlap : Open(id)
  \/ \E id \in 1..MaxOverlap : Write(id)
  \/ \E id \in 1..MaxOverlap : Resume(id)

SpecOverlap == Init /\ [][NextOverlap]_vars

(***************************************************************************)
(* Properties.                                                             *)
(***************************************************************************)
IsCall == last.kind = "call"
Result == last.comp.v
HasIsError(r) == "isError" \in DOMAIN r

\* C1: callTool never throws to its caller: whatever the tool name and the
\* arguments, and whatever fails in the try block, the handler returns a
\* result with content, and no fault is ever written in place of a result.
C1_NeverThrows ==
  /\ IsCall => last.comp.c = "return" /\ "content" \in DOMAIN Result
  /\ \A i \in 1..Len(stdout) : stdout[i].kind # "fault"

\* A call whose try block threw (a handler failure) has been answered.
C1_Witness ==
  /\ IsCall
  /\ Truthy(last.args)
  /\ last.name \in Registered(server)
  /\ TryBlock(server, last.name, last.args, last.pre).comp.c = "throw"

\* C2: a call whose arguments are absent or null is answered with
\* isError=true and the single text block "Error: No arguments provided",
\* whatever the tool name, without any file-system operation and without
\* touching the file store.
C2_NoArguments ==
  (IsCall /\ last.args \in {Undefined, Null}) =>
    /\ last.comp = Return([content |-> <<[type |-> "text",
                                           text |-> Str("Error: No arguments provided")]>>,
                           isError |-> TRUE])
    /\ last.io = 0
    /\ files = last.pre

\* A call with null arguments naming an unregistered tool has been answered.
C2_Witness == IsCall /\ last.args = Null /\ last.name = "nope"

\* C3: a call that supplies an arguments object and names an unregistered
\* tool is answered with isError=true and the text
\* "Error: Unknown tool: <name>", in every server.
C3_UnknownTool ==
  (IsCall /\ last.args.t = "object" /\ last.name \notin Registered(server)) =>
    last.comp = Return([content |-> <<[type |-> "text",
                                        text |-> Str("Error: Unknown tool: " \o last.name)]>>,
                        isError |-> TRUE])

\* The arguments a tool accepts: its required properties are strings that
\* name something the tool can act on in file store fs.
SupportedCities == {"new york", "london", "tokyo", "paris", "sydney"}
ValidArguments(srv, name, args, fs) ==
  /\ args.t = "object"
  /\ CASE srv = "filesystem" /\ name = "read_file" ->
            /\ args.path.t = "string"
            /\ args.path.s \in FilePaths
            /\ fs[args.path.s].exists
       [] srv = "filesystem" /\ name = "write_file" ->
            /\ args.path.t = "string"
            /\ args.path.s \in FilePaths
            /\ args.content.t = "string"
       [] srv = "filesystem" /\ name = "list_directory" ->
            /\ args.path.t = "string"
            /\ args.path.s \in Directories
       [] srv = "weather" /\ name \in {"get_weather", "get_forecast"} ->
            /\ args.city.t = "string"
            /\ toLowerCase(args.city.s) \in SupportedCities
       [] OTHER -> FALSE

ValidCall == IsCall /\ ValidArguments(server, last.name, last.args, last.pre)

\* A single text block whose text is a string; the same request on the same
\* file store as the request before it got the same answer.
EncodedDeterministically ==
  /\ last.comp.c = "return"
  /\ Len(Result.content) = 1
  /\ Result.content[1].type = "text"
  /\ Result.content[1].text.t = "string"
  /\ last.repeated => last.sameAsBefore

\* C4 as stated: a call naming a registered tool with valid arguments gets a
\* result that carries isError=false and a deterministic textual encoding of
\* the handler's return value.
C4_IsErrorFalse ==
  ValidCall => /\ HasIsError(Result)
               /\ Result.isError = FALSE
               /\ EncodedDeterministically

\* C4 amended: a call naming a registered tool with valid arguments gets a
\* result with no isError key at all (the key is left out, not set to
\* false), with one text block holding a deterministic textual encoding of
\* the handler's return value.
C4_NoIsErrorKey ==
  ValidCall => /\ EncodedDeterministically
               /\ ~HasIsError(Result)

\* A valid call that repeats the call before it on the same file store.
C4_Witness == ValidCall /\ last.repeated /\ last.name = "get_weather"

\* C5: listTools always succeeds, and every discovery response carries the
\* tool sequence of the first discovery response, in the same order,
\* whatever requests came in between.
C5_ListStable ==
  last.kind = "list" =>
    /\ last.comp.c = "return"
    /\ firstList.seen
    /\ last.comp.v.tools = firstList.tools

\* A discovery request answered after an earlier discovery request and right
\* after a failed call.
C5_Witness == last.kind = "list" /\ firstList.id < last.id /\ last.afterFailure

\* C6: each request gets exactly one response, a call gets a result, and
\* its handler starts at most one file-system operation: a failed action is
\* not tried again.
C6_OneResultNoRetry ==
  /\ \A i \in 1..nReq : Cardinality({j \in 1..Len(stdout) : stdout[j].id = i}) = 1
  /\ Len(stdout) = nReq
  /\ IsCall => /\ stdout[last.id].kind = "result"
               /\ last.io <= 1

\* A write_file whose write failed has been answered.
C6_Witness ==
  /\ IsCall
  /\ last.name = "write_file"
  /\ server = "filesystem"
  /\ last.io = 1
  /\ Failed(last)

\* C7: a call that ends in an error result leaves the server Serving, and
\* the request after a failed call is answered like any other.
C7_FailureKeepsServing ==
  /\ [][(last'.id # last.id /\ Failed(last')) => (state' = "Serving" /\ exitCode' = exitCode)]_vars
  /\ [](last.afterFailure => /\ last.comp.c = "return"
                             /\ stdout[last.id].kind \in {"tools", "result"}
                             /\ last.kind = "list" => last.comp.v.tools = ListToolsHandler(server))

\* A discovery request answered right after a failed call, still Serving.
C7_Witness == last.afterFailure /\ last.kind = "list" /\ state = "Serving"

\* C8: when connecting the transport fails, the failure is on stderr, the
\* exit status is nonzero, the server is not Serving and has served
\* nothing, and nothing was written to the response stream.
C8_FatalStartup ==
  connect = "rejected" =>
    /\ state = "Exited"
    /\ exitCode # 0
    /\ Len(stderr) = 1
    /\ \E e \in ConnectErrors : stderr[1] = "Fatal error: " \o e
    /\ stdout = <<>>
    /\ nReq = 0

\* The connection failed and the process is gone.
C8_Witness == connect = "rejected" /\ state = "Exited"

\* C9: every result of callTool has at least one content block, and each
\* block has type "text" and a text that is a string.
C9_TextBlocks ==
  (IsCall /\ last.comp.c = "return") =>
    /\ Len(Result.content) >= 1
    /\ \A i \in 1..Len(Result.content) :
         /\ Result.content[i].type = "text"
         /\ Result.content[i].text.t = "string"

\* C11: when calls overlap, under every interleaving each response carries
\* the id of its own request and the result the handler gives for that
\* request's own name and arguments on the file store as its file-system
\* operation found it; no other call has a part in it.  Each finished call
\* has exactly one response.
C11_OwnResult ==
  /\ \A k \in 1..Len(stdout) :
       /\ stdout[k].id \in 1..Len(calls)
       /\ calls[stdout[k].id].phase = "done"
       /\ stdout[k].comp = CallToolHandler(server, calls[stdout[k].id].name,
                                           calls[stdout[k].id].args,
                                           calls[stdout[k].id].seen).comp
  /\ \A id \in 1..Len(calls) :
       Cardinality({k \in 1..Len(stdout) : stdout[k].id = id})
         = (IF calls[id].phase = "done" THEN 1 ELSE 0)

\* Two calls overlapped, the second started while the first was suspended,
\* the first is a write and the second a read of another path, and both
\* have been answered.
C11_Witness ==
  /\ Len(calls) = 2
  /\ calls[1].overlapped
  /\ calls[1].name = "write_file"
  /\ calls[2].name = "read_file"
  /\ calls[2].args = Obj(Str("/d/b"), Undefined, Undefined)
  /\ calls[1].phase = "done"
  /\ calls[2].phase = "done"

\* A weather call whose city argument is a string.
WeatherCall ==
  /\ IsCall
  /\ server = "weather"
  /\ last.name \in {"get_weather", "get_forecast"}
  /\ last.args.t = "object"
  /\ last.args.city.t = "string"

\* C12: get_weather and get_forecast succeed exactly when the lower-cased
\* city is one of the five supported cities; for every other city string
\* the result is isError=true with the text "Error: Weather data not
\* available for <city as supplied>. Supported cities: ...".
C12_SupportedCities ==
  WeatherCall =>
    IF toLowerCase(last.args.city.s) \in SupportedCities
      THEN last.comp.c = "return" /\ ~HasIsError(Result)
      ELSE last.comp =
             Return([content |-> <<[type |-> "text",
                                    text |-> Str("Error: Weather data not available for "
                                                 \o last.args.city.s
                                                 \o ". Supported cities: New York, London, Tokyo, Paris, Sydney")]>>,
                     isError |-> TRUE])

\* One entry of a forecast.
Day(day, city, temperature, unit, conditions, humidity, windSpeed) ==
  <<<<"day", Str(day)>>, <<"city", Str(city)>>, <<"temperature", Num(temperature)>>,
    <<"unit", Str(unit)>>, <<"conditions", Str(conditions)>>,
    <<"humidity", Num(humidity)>>, <<"windSpeed", Num(windSpeed)>>>>

\* The three entries the forecast of a city shall have, from the city's
\* current values.
ThreeDays(cur) ==
  LET city == Field(cur, "city").s
      unit == Field(cur, "unit").s
      temperature == Field(cur, "temperature").n
      humidity == Field(cur, "humidity").n
      windSpeed == Field(cur, "windSpeed").n
  IN  <<Day("Today", city, temperature, unit, Field(cur, "conditions").s, humidity, windSpeed),
        Day("Tomorrow", city, temperature + 2, unit, "Partly cloudy",
            humidity - 5, windSpeed + 3),
        Day("Day After Tomorrow", city, temperature - 1, unit, "Cloudy",
            humidity + 10, windSpeed - 2)>>

\* C13: for a supported city get_forecast returns exactly three entries,
\* Today, Tomorrow, Day After Tomorrow, with the city and unit of the current
\* weather: Today is the current weather, Tomorrow has temperature+2,
\* humidity-5, windSpeed+3, Day After Tomorrow has temperature-1,
\* humidity+10, windSpeed-2, each taken from the current values.
C13_Forecast ==
  (WeatherCall /\ last.name = "get_forecast"
     /\ toLowerCase(last.args.city.s) \in SupportedCities) =>
    last.comp = Return([content |->
      <<[type |-> "text",
         text |-> Str(StringifyArray(ThreeDays(mockWeatherData(toLowerCase(last.args.city.s)))))]>>])

\* The forecast of New York has been returned.
C13_Witness ==
  /\ WeatherCall
  /\ last.name = "get_forecast"
  /\ last.args.city = Str("new york")
  /\ last.comp.c = "return"

UnknownToolResult(name) ==
  Return([content |-> <<[type |-> "text", text |-> Str("Error: Unknown tool: " \o name)]>>,
          isError |-> TRUE])

\* C14: the catalog and the dispatcher agree.  A call with arguments that
\* names a listed tool never gets "Unknown tool"; a call that names a tool
\* the catalog does not list is not routed to a handler: it fails, starts no
\* file-system operation, leaves the file store alone, and gets "Unknown
\* tool" whenever the switch is reached (always in the filesystem server, for
\* a string city in the weather server).
C14_CatalogMatchesDispatch ==
  (IsCall /\ Truthy(last.args)) =>
    /\ last.name \in Registered(server) => last.comp # UnknownToolResult(last.name)
    /\ last.name \notin Registered(server) =>
         /\ Failed(last)
         /\ last.io = 0
         /\ files = last.pre
         /\ (server = "filesystem" \/ Prop(last.args, "city").t = "string") =>
              last.comp = UnknownToolResult(last.name)

\* The upper-case spelling of a listed tool was called with arguments its
\* lower-case namesake accepts.
C14_Witness ==
  /\ IsCall
  /\ server = "filesystem"
  /\ last.name = "READ_FILE"
  /\ last.args = Obj(Str("/d/a"), Undefined, Undefined)

\* A write_file that succeeded.
WroteFile == IsCall /\ server = "filesystem" /\ last.name = "write_file" /\ ~Failed(last)

\* C15: in the filesystem server only a successful write_file changes the
\* file store, and only at its path: listTools, read_file, list_directory
\* and every failed call (absent arguments and unknown tools among them)
\* leave it as it was.
C15_OnlyWriteChangesStore ==
  (server = "filesystem" /\ last.kind \in {"list", "call"}) =>
    /\ files # last.pre => WroteFile
    /\ WroteFile => \A p \in FilePaths \ {last.args.path.s} : files[p] = last.pre[p]

\* A successful write_file has changed the store.
C15_Witness == WroteFile /\ files # last.pre

\* C16: once write_file(path, content) has succeeded, read_file(path)
\* succeeds with exactly the content of the last successful write_file to
\* that path, whatever other requests came in between; a write_file that
\* repeats the call before it leaves the state as that call left it.
C16_ReadAfterWrite ==
  /\ (/\ IsCall
      /\ server = "filesystem"
      /\ last.name = "read_file"
      /\ Prop(last.args, "path").t = "string"
      /\ Prop(last.args, "path").s \in FilePaths
      /\ last.written[Prop(last.args, "path").s].exists) =>
       last.comp = Return([content |->
         <<[type |-> "text",
            text |-> Str(last.written[Prop(last.args, "path").s].data)]>>])
  /\ (WroteFile /\ last.sameRequest) => files = last.pre

\* /d/b, which did not exist, has been written and then read.
C16_Witness ==
  /\ IsCall
  /\ server = "filesystem"
  /\ last.name = "read_file"
  /\ last.args = Obj(Str("/d/b"), Undefined, Undefined)
  /\ last.written["/d/b"].exists

====
